---- MODULE Spec2Model ----
(***************************************************************************)
(* Model of @smonn/postgres-migrate (src/lib/index.js): applyMigrations    *)
(* and resetDatabase run by concurrent client processes against one        *)
(* PostgreSQL database and one migrations directory.                       *)
(*                                                                         *)
(* A migration file name is modelled by its rank in lexical filename       *)
(* order (the 14-digit timestamp prefix), a file content by a small        *)
(* version number, a transaction by the process-local fields of proc[p]    *)
(* that become part of the committed state only at the commit step.        *)
(* The effect of an executed script is modelled as one user table per      *)
(* script, counting the committed executions of the script.                *)
(*                                                                         *)
(* Database semantics used (PostgreSQL):                                   *)
(*  - DDL is transactional; a rolled back transaction leaves nothing.      *)
(*  - A SERIALIZABLE transaction reads from the snapshot taken by its      *)
(*    first statement that is not a transaction-control statement; here    *)
(*    that is the CREATE TABLE IF NOT EXISTS of ensureMigrationsTableExists*)
(*    which runs before LOCK TABLE.                                        *)
(*  - LOCK TABLE ... IN EXCLUSIVE MODE and DROP TABLE (ACCESS EXCLUSIVE)   *)
(*    wait for each other and are held until the transaction ends.         *)
(*  - An INSERT of an existing primary key fails; an INSERT by a           *)
(*    serializable transaction whose snapshot misses rows committed by a   *)
(*    concurrent serializable transaction fails (serialization failure).   *)
(*  - A CREATE TABLE IF NOT EXISTS that races with an uncommitted creation *)
(*    of the same table waits, and fails if that creation commits.         *)
(***************************************************************************)
EXTENDS Integers, Sequences, FiniteSets, TLC

\* ---------------------------------------------------------------- bounds
NumFiles == 2      \* migration file names 1..NumFiles, in filename order
MaxVer == 2        \* distinct contents a file can have
NumProcs == 2      \* client processes
MaxCalls == 2      \* apply/reset invocations started in a behaviour

Names == 1..NumFiles
Vers == 1..MaxVer
Procs == 1..NumProcs

\* A directory entry that is not a migration script (no ".sql" suffix).
OtherEntry == 0
\* No file / no lock holder.
Absent == 0
NoProc == 0
\* The ledger table among the tables reset enumerates; user tables are Names.
LedgerTable == 0
\* Result of a failed property lookup in a JS object.
Undefined == [undefined |-> TRUE]

VARIABLES
    tableExists,  \* committed: table __migrations exists
    ledger,       \* committed rows of __migrations, in insertion order
    effects,      \* committed user schema: name -> committed executions of the script
    lockHolder,   \* process holding the table lock on __migrations
    proc,         \* per process: the running call and its open transaction
    calls         \* invocations started so far

vars == <<tableExists, ledger, effects, lockHolder, proc, calls>>
db == <<tableExists, ledger, effects>>

\* ------------------------------------------------------- pure functions

\* computeChecksum: SHA-256 hex digest of the file content (injective on contents).
computeChecksum(content) == <<"sha256", content>>

RECURSIVE SeqToSet(_)
SeqToSet(s) == IF s = <<>> THEN {} ELSE {Head(s)} \cup SeqToSet(Tail(s))

RECURSIVE FilterSeq(_, _)
\* subsequence of s of the elements that are in set keep
FilterSeq(s, keep) ==
    IF s = <<>> THEN <<>>
    ELSE IF Head(s) \in keep THEN <<Head(s)>> \o FilterSeq(Tail(s), keep)
         ELSE FilterSeq(Tail(s), keep)

\* all orders in which a directory listing can return the set of entries S
Listings(S) ==
    {s \in [1..Cardinality(S) -> S] : \A i, j \in 1..Cardinality(S) : i # j => s[i] # s[j]}

\* file.endsWith(".sql")
endsWithSql(entry) == entry # OtherEntry

\* entries present in the directory
DirEntries(fs) == {OtherEntry} \cup {n \in Names : fs[n] # Absent}

RECURSIVE getMigrationFiles(_, _)
\* getMigrationFiles: one MigrationFile per .sql entry, in listing order
getMigrationFiles(listing, fs) ==
    IF listing = <<>> THEN <<>>
    ELSE IF endsWithSql(Head(listing))
         THEN <<[name |-> Head(listing), checksum |-> computeChecksum(fs[Head(listing)])]>>
              \o getMigrationFiles(Tail(listing), fs)
         ELSE getMigrationFiles(Tail(listing), fs)

\* Object.fromEntries(rows.map(r => [r.name, r])): last entry of a name wins
Lookup(rows) ==
    [n \in Names |->
        IF \E i \in 1..Len(rows) : rows[i].name = n
        THEN rows[CHOOSE i \in 1..Len(rows) :
                    rows[i].name = n /\ \A j \in 1..Len(rows) : rows[j].name = n => j <= i]
        ELSE Undefined]

\* ORDER BY round ASC, name ASC
RowBefore(a, b) == a.round < b.round \/ (a.round = b.round /\ a.name < b.name)

RECURSIVE SortRows(_)
SortRows(rows) ==
    IF rows = <<>> THEN <<>>
    ELSE LET m == CHOOSE i \in 1..Len(rows) : \A j \in 1..Len(rows) : ~RowBefore(rows[j], rows[i])
         IN  <<rows[m]>> \o SortRows(SubSeq(rows, 1, m - 1) \o SubSeq(rows, m + 1, Len(rows)))

\* variant: no ORDER BY, the rows come in insertion order
getMigrationsUnordered(rows) == rows

\* getMigrations: SELECT * FROM __migrations ORDER BY round ASC, name ASC
getMigrations(rows) == SortRows(rows)

\* variant: every catalog entry is pending
pendingMigrationsAll(migrationFiles, migrations) == migrationFiles

\* pendingMigrations: catalog entries whose name is not in the ledger, in catalog order
pendingMigrations(migrationFiles, migrations) ==
    LET migrationsLookup == Lookup(migrations)
    IN  FilterSeq(migrationFiles,
                  {f \in SeqToSet(migrationFiles) : migrationsLookup[f.name] = Undefined})

\* variant: a round number is left out
nextRoundSkip(migrations) ==
    LET lastMigrationRound == IF migrations = <<>> THEN 0 ELSE migrations[Len(migrations)].round
    IN  lastMigrationRound + 2

\* variant: the round counts down from the round of the last row
nextRoundBelow(migrations) ==
    LET lastMigrationRound == IF migrations = <<>> THEN 0 ELSE migrations[Len(migrations)].round
    IN  lastMigrationRound - 1

\* variant: the round of the last row is reused
nextRoundSame(migrations) ==
    IF migrations = <<>> THEN 1 ELSE migrations[Len(migrations)].round

\* round of the batch: round of the last row read, plus one
nextRound(migrations) ==
    LET lastMigrationRound == IF migrations = <<>> THEN 0 ELSE migrations[Len(migrations)].round
    IN  lastMigrationRound + 1

RECURSIVE checkChecksumsNoCompare(_, _)
\* variant: the loop looks the file up but does not compare the checksums
checkChecksumsNoCompare(migrations, migrationFilesLookup) ==
    IF migrations = <<>> THEN "ok"
    ELSE IF migrationFilesLookup[Head(migrations).name] = Undefined THEN "TypeError"
    ELSE checkChecksumsNoCompare(Tail(migrations), migrationFilesLookup)

RECURSIVE checkChecksums(_, _)
\* the checksum loop: "ok", or the error thrown at the first offending row
checkChecksums(migrations, migrationFilesLookup) ==
    IF migrations = <<>> THEN "ok"
    ELSE LET migrationFile == migrationFilesLookup[Head(migrations).name]
         IN  IF migrationFile = Undefined THEN "TypeError"
             ELSE IF Head(migrations).checksum # migrationFile.checksum THEN "ChecksumMismatch"
             ELSE checkChecksums(Tail(migrations), migrationFilesLookup)

\* ------------------------------------------------------------ the state

\* placeholder for a committed state that has not been recorded
NoDb == <<FALSE, <<>>, [n \in Names |-> 0]>>

\* a process that is not inside a call
IdleProc ==
    [op |-> "idle", pc |-> "idle", ret |-> "none", err |-> "none",
     id |-> 0,                  \* number of the invocation, in order of start
     migrationFiles |-> <<>>,   \* catalog read by getMigrationFiles
     snap |-> <<>>,             \* ledger rows visible to the transaction's snapshot
     created |-> FALSE,         \* the transaction created __migrations (uncommitted)
     pending |-> <<>>,          \* pendingMigrations still to apply
     round |-> 0,               \* round of this batch
     inserted |-> <<>>,         \* rows inserted by the transaction (uncommitted)
     ran |-> <<>>,              \* scripts executed by the transaction, in order
     tables |-> {},             \* reset: tables enumerated from pg_tables, not yet visited
     dropped |-> {},            \* reset: tables dropped by the transaction (uncommitted)
     declined |-> FALSE,        \* reset: the confirmation prompt was answered no
     applyCalled |-> FALSE,     \* applyMigrations has been invoked
     preReset |-> NoDb,         \* committed state when resetDatabase was invoked
     pre |-> NoDb,              \* committed state when applyMigrations was invoked
     intf |-> FALSE]            \* another process committed a change since the call started

\* rows applyMigration inserts for a catalog applied to an empty ledger by an
\* invocation that precedes the behaviour
FirstRound(migrationFiles) ==
    [i \in 1..Len(migrationFiles) |->
        [name |-> migrationFiles[i].name, checksum |-> migrationFiles[i].checksum, round |-> 1,
         applied_at |-> 0]]

\* The database a behaviour starts from: a fresh one, or one that an earlier
\* successful apply of some directory content has migrated.
Init ==
    /\ \/ /\ tableExists = FALSE
          /\ ledger = <<>>
          /\ effects = [n \in Names |-> 0]
       \/ \E fs \in [Names -> {Absent, 1}] : \E listing \in Listings(DirEntries(fs)) :
             /\ tableExists = TRUE
             /\ ledger = FirstRound(getMigrationFiles(listing, fs))
             /\ effects = [n \in Names |-> IF fs[n] = Absent THEN 0 ELSE 1]
    /\ lockHolder = NoProc
    /\ proc = [p \in Procs |-> IdleProc]
    /\ calls = 0

\* rows of __migrations the transaction of p reads
View(p) == IF proc[p].created THEN <<>> ELSE proc[p].snap

RowNames(rows) == {r.name : r \in SeqToSet(rows)}

\* what a commit of process q does to the other processes: they have been
\* interfered with, a snapshot loses the rows of a dropped table, and a
\* CREATE TABLE waiting for a creation that committed gets its error
Others(q, changed, droppedLedger, createCommitted) ==
    [r \in Procs |->
        IF r = q THEN proc[r]
        ELSE [proc[r] EXCEPT
                !.intf = @ \/ changed,
                !.snap = IF droppedLedger THEN <<>> ELSE @,
                !.pc = IF createCommitted /\ @ = "createWait" THEN "createErr" ELSE @]]

\* A finished call returns before anything else happens: the return touches
\* nothing shared.
NoneDone == \A p \in Procs : proc[p].pc # "done"

\* contents the migrations directory can have: name -> version, Absent if no file
Directories == [Names -> {Absent} \cup Vers]

\* catch (error) { ...; return false } after the open transaction rolled back
Failed(p, cause) ==
    [proc[p] EXCEPT !.pc = "done", !.ret = "false", !.err = cause,
                    !.created = FALSE, !.inserted = <<>>, !.dropped = {}]

\* variant: the work done before the failure is not rolled back
FailKeepsWork(p, cause) ==
    /\ proc' = [proc EXCEPT ![p] = Failed(p, cause)]
    /\ lockHolder' = IF lockHolder = p THEN NoProc ELSE lockHolder
    /\ tableExists' = (tableExists \/ proc[p].created)
    /\ ledger' = ledger \o proc[p].inserted
    /\ effects' = [n \in Names |->
                     effects[n] + Cardinality({i \in 1..Len(proc[p].ran) : proc[p].ran[i].name = n})]
    /\ UNCHANGED calls

Fail(p, cause) ==
    /\ proc' = [proc EXCEPT ![p] = Failed(p, cause)]
    /\ lockHolder' = IF lockHolder = p THEN NoProc ELSE lockHolder
    /\ UNCHANGED <<tableExists, ledger, effects, calls>>

\* --------------------------------------------------- applyMigrations

\* Client processes are interchangeable: a new invocation is run by the
\* lowest-numbered process that is not inside a call.
Free(p) == proc[p].pc = "idle"
CanStart(p) == Free(p) /\ \A q \in Procs : q < p => ~Free(q)

\* a process invokes applyMigrations(sql, baseDir)
StartApply(p) ==
    /\ NoneDone
    /\ CanStart(p)
    /\ calls < MaxCalls
    /\ calls' = calls + 1
    /\ proc' = [proc EXCEPT ![p] = [IdleProc EXCEPT !.op = "apply", !.pc = "catalog", !.id = calls + 1,
                                                   !.applyCalled = TRUE, !.pre = db]]
    /\ UNCHANGED <<tableExists, ledger, effects, lockHolder>>

\* getMigrationFiles(baseDir) returns the catalog in directory-listing order;
\* fs is the content of the directory at that moment
ReadCatalog(p, fs) ==
    /\ NoneDone
    /\ proc[p].pc = "catalog"
    /\ \E listing \in Listings(DirEntries(fs)) :
          proc' = [proc EXCEPT ![p].migrationFiles = getMigrationFiles(listing, fs),
                               ![p].pc = "begin"]
    /\ UNCHANGED <<tableExists, ledger, effects, lockHolder, calls>>

\* variant: the ledger table is created and committed before the directory is read
ReadCatalogFailAfterCreate(p) ==
    /\ NoneDone
    /\ proc[p].pc = "catalog"
    /\ proc' = [proc EXCEPT ![p] = Failed(p, "IOError")]
    /\ tableExists' = TRUE
    /\ UNCHANGED <<ledger, effects, lockHolder, calls>>

\* fs.readdir or the read stream of computeChecksum fails
ReadCatalogFail(p) ==
    /\ NoneDone
    /\ proc[p].pc = "catalog"
    /\ Fail(p, "IOError")

\* sql.begin("ISOLATION LEVEL SERIALIZABLE") and ensureMigrationsTableExists:
\* the first statement of the transaction takes its snapshot
Begin(p) ==
    /\ NoneDone
    /\ proc[p].pc = "begin"
    /\ proc' = [proc EXCEPT
          ![p].snap = IF tableExists THEN ledger ELSE <<>>,
          ![p].created = ~tableExists /\ \A q \in Procs \ {p} : ~proc[q].created,
          ![p].pc = IF tableExists \/ \A q \in Procs \ {p} : ~proc[q].created
                    THEN "lock" ELSE "createWait"]
    /\ UNCHANGED <<tableExists, ledger, effects, lockHolder, calls>>

\* the creation waited for was rolled back: CREATE TABLE IF NOT EXISTS creates
CreateResume(p) ==
    /\ NoneDone
    /\ proc[p].pc = "createWait"
    /\ \A q \in Procs \ {p} : ~proc[q].created
    /\ proc' = [proc EXCEPT ![p].created = TRUE, ![p].pc = "lock"]
    /\ UNCHANGED <<tableExists, ledger, effects, lockHolder, calls>>

\* the creation waited for committed: CREATE TABLE IF NOT EXISTS fails
CreateError(p) ==
    /\ NoneDone
    /\ proc[p].pc = "createErr"
    /\ Fail(p, "DuplicateTable")

\* lockMigrationsTable: LOCK TABLE __migrations IN EXCLUSIVE MODE
lockMigrationsTable(p) ==
    /\ NoneDone
    /\ proc[p].pc = "lock"
    /\ tableExists \/ proc[p].created
    /\ lockHolder = NoProc
    /\ lockHolder' = p
    /\ proc' = [proc EXCEPT ![p].pc = "read"]
    /\ UNCHANGED <<tableExists, ledger, effects, calls>>

\* the table was dropped by a reset that committed after ensureMigrationsTableExists
LockFail(p) ==
    /\ NoneDone
    /\ proc[p].pc = "lock"
    /\ ~tableExists /\ ~proc[p].created
    /\ Fail(p, "UndefinedTable")

\* getMigrations, pending set, round, and the checksum loop
ReadLedger(p) ==
    /\ NoneDone
    /\ proc[p].pc = "read"
    /\ LET migrations == getMigrations(View(p))
           check == checkChecksums(migrations, Lookup(proc[p].migrationFiles))
       IN  IF check = "ok"
           THEN /\ proc' = [proc EXCEPT
                      ![p].pending = pendingMigrations(proc[p].migrationFiles, migrations),
                      ![p].round = nextRound(migrations),
                      ![p].pc = "exec"]
                /\ UNCHANGED <<tableExists, ledger, effects, lockHolder, calls>>
           ELSE Fail(p, check)

\* variant: no primary key on name and no serializable isolation
InsertErrorNone(p, migration) == "ok"

\* the INSERT of applyMigration is rejected: primary key, or serialization failure
InsertError(p, migration) ==
    IF migration.name \in RowNames(ledger) \cup RowNames(proc[p].inserted)
    THEN "UniqueViolation"
    ELSE IF ~proc[p].created /\ proc[p].snap # ledger THEN "SerializationFailure"
    ELSE "ok"

\* applyMigration: sql.file(migration.path), then INSERT INTO __migrations;
\* content is what the file at migration.path holds when sql.file reads it.
\* applied_at defaults to NOW(), the start time of the inserting transaction,
\* modelled by the number of the invocation that opened the transaction.
applyMigration(p, content) ==
    /\ NoneDone
    /\ proc[p].pc = "exec"
    /\ proc[p].pending # <<>>
    /\ LET migration == Head(proc[p].pending)
       IN  /\ InsertError(p, migration) = "ok"
           /\ proc' = [proc EXCEPT
                 ![p].ran = Append(@, [name |-> migration.name, ver |-> content]),
                 ![p].inserted = Append(@, [name |-> migration.name,
                                            checksum |-> migration.checksum,
                                            round |-> proc[p].round,
                                            applied_at |-> proc[p].id]),
                 ![p].pending = Tail(@)]
    /\ UNCHANGED <<tableExists, ledger, effects, lockHolder, calls>>

\* sql.file fails: the file is gone, or the script raises an error
ScriptFail(p) ==
    /\ NoneDone
    /\ proc[p].pc = "exec"
    /\ proc[p].pending # <<>>
    /\ \E cause \in {"IOError", "ScriptError"} : Fail(p, cause)

\* the script ran, the INSERT fails
InsertFail(p, content) ==
    /\ NoneDone
    /\ proc[p].pc = "exec"
    /\ proc[p].pending # <<>>
    /\ LET migration == Head(proc[p].pending)
       IN  /\ InsertError(p, migration) # "ok"
           /\ proc' = [proc EXCEPT ![p] =
                 [Failed(p, InsertError(p, migration)) EXCEPT
                    !.ran = Append(@, [name |-> migration.name, ver |-> content])]]
    /\ lockHolder' = NoProc
    /\ UNCHANGED <<tableExists, ledger, effects, calls>>

\* number of executions of script n by the transaction of p
RanCount(p, n) == Cardinality({i \in 1..Len(proc[p].ran) : proc[p].ran[i].name = n})

\* variant: the rows of the batch replace the rows of the table
CommitRewrites(p) ==
    /\ NoneDone
    /\ proc[p].pc = "exec"
    /\ proc[p].pending = <<>>
    /\ tableExists' = TRUE
    /\ ledger' = proc[p].inserted
    /\ effects' = [n \in Names |-> effects[n] + RanCount(p, n)]
    /\ lockHolder' = NoProc
    /\ proc' = [Others(p, TRUE, FALSE, proc[p].created)
                  EXCEPT ![p] = [proc[p] EXCEPT !.pc = "done", !.ret = "true",
                                                !.created = FALSE, !.inserted = <<>>]]
    /\ UNCHANGED <<calls>>

\* the callback of sql.begin returns pendingMigrations.length: COMMIT, return true
Commit(p) ==
    /\ NoneDone
    /\ proc[p].pc = "exec"
    /\ proc[p].pending = <<>>
    /\ tableExists' = TRUE
    /\ ledger' = ledger \o proc[p].inserted
    /\ effects' = [n \in Names |-> effects[n] + RanCount(p, n)]
    /\ lockHolder' = NoProc
    /\ proc' = [Others(p, proc[p].created \/ proc[p].inserted # <<>>, FALSE, proc[p].created)
                  EXCEPT ![p] = [proc[p] EXCEPT !.pc = "done", !.ret = "true",
                                                !.created = FALSE, !.inserted = <<>>]]
    /\ UNCHANGED <<calls>>

\* ----------------------------------------------------- resetDatabase

\* a process invokes resetDatabase(sql, baseDir, force)
StartReset(p, force) ==
    /\ NoneDone
    /\ CanStart(p)
    /\ calls < MaxCalls
    /\ calls' = calls + 1
    /\ proc' = [proc EXCEPT ![p] = [IdleProc EXCEPT !.op = "reset", !.id = calls + 1,
                                       !.preReset = db,
                                       !.pc = IF force THEN "dropBegin" ELSE "confirm"]]
    /\ UNCHANGED <<tableExists, ledger, effects, lockHolder>>

\* variant: the answer is not looked at
ConfirmIgnored(p, answer) ==
    /\ NoneDone
    /\ proc[p].pc = "confirm"
    /\ proc' = [proc EXCEPT ![p] = [@ EXCEPT !.pc = "dropBegin", !.declined = ~answer]]
    /\ UNCHANGED <<tableExists, ledger, effects, lockHolder, calls>>

\* the confirmation prompt is answered
Confirm(p, answer) ==
    /\ NoneDone
    /\ proc[p].pc = "confirm"
    /\ proc' = [proc EXCEPT ![p] =
          IF answer THEN [@ EXCEPT !.pc = "dropBegin"]
          ELSE [@ EXCEPT !.pc = "done", !.ret = "false", !.err = "Aborted", !.declined = TRUE]]
    /\ UNCHANGED <<tableExists, ledger, effects, lockHolder, calls>>

\* sql.begin (READ COMMITTED), search_path and user, SELECT ... FROM pg_tables
ListTables(p) ==
    /\ NoneDone
    /\ proc[p].pc = "dropBegin"
    /\ proc' = [proc EXCEPT
          ![p].tables = (IF tableExists THEN {LedgerTable} ELSE {})
                        \cup {n \in Names : effects[n] > 0},
          ![p].pc = "drop"]
    /\ UNCHANGED <<tableExists, ledger, effects, lockHolder, calls>>

\* DROP TABLE IF EXISTS ... CASCADE of one enumerated table
DropTable(p, t) ==
    /\ NoneDone
    /\ proc[p].pc = "drop"
    /\ t \in proc[p].tables
    /\ LET \* IF EXISTS: a table that is gone by now is skipped
           exists == IF t = LedgerTable THEN tableExists ELSE effects[t] > 0
       IN  /\ (exists /\ t = LedgerTable) => lockHolder = NoProc
           /\ (exists /\ t # LedgerTable) => \A q \in Procs \ {p} : t \notin proc[q].dropped
           /\ lockHolder' = IF exists /\ t = LedgerTable THEN p ELSE lockHolder
           /\ proc' = [proc EXCEPT ![p].tables = @ \ {t},
                                   ![p].dropped = IF exists THEN @ \cup {t} ELSE @]
    /\ UNCHANGED <<tableExists, ledger, effects, calls>>

\* variant: the tables dropped before the failing statement stay dropped
DropFailKeepsDrops(p) ==
    /\ NoneDone
    /\ proc[p].pc \in {"dropBegin", "drop"}
    /\ tableExists' = (tableExists /\ LedgerTable \notin proc[p].dropped)
    /\ ledger' = IF LedgerTable \in proc[p].dropped THEN <<>> ELSE ledger
    /\ effects' = [n \in Names |-> IF n \in proc[p].dropped THEN 0 ELSE effects[n]]
    /\ proc' = [proc EXCEPT ![p] = Failed(p, "DropError")]
    /\ lockHolder' = IF lockHolder = p THEN NoProc ELSE lockHolder
    /\ UNCHANGED <<calls>>

\* a statement of the drop transaction fails: rollback, return false
DropFail(p) ==
    /\ NoneDone
    /\ proc[p].pc \in {"dropBegin", "drop"}
    /\ Fail(p, "DropError")

\* variant: the ledger table survives the drop
DropCommitKeepsLedger(p) ==
    /\ NoneDone
    /\ proc[p].pc = "drop"
    /\ proc[p].tables = {}
    /\ effects' = [n \in Names |-> IF n \in proc[p].dropped THEN 0 ELSE effects[n]]
    /\ proc' = [Others(p, effects' # effects, FALSE, FALSE)
                  EXCEPT ![p] = [proc[p] EXCEPT !.pc = "catalog", !.dropped = {},
                                               !.applyCalled = TRUE,
                                               !.pre = <<tableExists, ledger, effects'>>]]
    /\ lockHolder' = IF lockHolder = p THEN NoProc ELSE lockHolder
    /\ UNCHANGED <<tableExists, ledger, calls>>

\* the drop transaction commits; applyMigrations(sql, baseDir) is invoked
DropCommit(p) ==
    /\ NoneDone
    /\ proc[p].pc = "drop"
    /\ proc[p].tables = {}
    /\ LET droppedLedger == LedgerTable \in proc[p].dropped
           newEffects == [n \in Names |-> IF n \in proc[p].dropped THEN 0 ELSE effects[n]]
       IN  /\ tableExists' = (tableExists /\ ~droppedLedger)
           /\ ledger' = IF droppedLedger THEN <<>> ELSE ledger
           /\ effects' = newEffects
           /\ proc' = [Others(p, droppedLedger \/ newEffects # effects, droppedLedger, FALSE)
                         EXCEPT ![p] = [proc[p] EXCEPT !.pc = "catalog", !.dropped = {},
                                                      !.applyCalled = TRUE,
                                                      !.pre = <<tableExists', ledger', effects'>>]]
    /\ lockHolder' = IF lockHolder = p THEN NoProc ELSE lockHolder
    /\ UNCHANGED <<calls>>

\* the call returns to its caller
Return(p) ==
    /\ proc[p].pc = "done"
    /\ proc' = [proc EXCEPT ![p] = IdleProc]
    /\ UNCHANGED <<tableExists, ledger, effects, lockHolder, calls>>

Next ==
    \/ \E p \in Procs : StartApply(p)
    \/ \E p \in Procs, fs \in Directories : ReadCatalog(p, fs)
    \/ \E p \in Procs : ReadCatalogFail(p)
    \/ \E p \in Procs : Begin(p)
    \/ \E p \in Procs : CreateResume(p)
    \/ \E p \in Procs : CreateError(p)
    \/ \E p \in Procs : lockMigrationsTable(p)
    \/ \E p \in Procs : LockFail(p)
    \/ \E p \in Procs : ReadLedger(p)
    \/ \E p \in Procs, content \in Vers : applyMigration(p, content)
    \/ \E p \in Procs : ScriptFail(p)
    \/ \E p \in Procs, content \in Vers : InsertFail(p, content)
    \/ \E p \in Procs : Commit(p)
    \/ \E p \in Procs, force \in BOOLEAN : StartReset(p, force)
    \/ \E p \in Procs, answer \in BOOLEAN : Confirm(p, answer)
    \/ \E p \in Procs : ListTables(p)
    \/ \E p \in Procs, t \in {LedgerTable} \cup Names : DropTable(p, t)
    \/ \E p \in Procs : DropFail(p)
    \/ \E p \in Procs : DropCommit(p)
    \/ \E p \in Procs : Return(p)

Spec == Init /\ [][Next]_vars

\* the behaviours in which only applyMigrations is invoked
NextApply ==
    \/ \E p \in Procs : StartApply(p)
    \/ \E p \in Procs, fs \in Directories : ReadCatalog(p, fs)
    \/ \E p \in Procs : ReadCatalogFail(p)
    \/ \E p \in Procs : Begin(p)
    \/ \E p \in Procs : CreateResume(p)
    \/ \E p \in Procs : CreateError(p)
    \/ \E p \in Procs : lockMigrationsTable(p)
    \/ \E p \in Procs : ReadLedger(p)
    \/ \E p \in Procs, content \in Vers : applyMigration(p, content)
    \/ \E p \in Procs : ScriptFail(p)
    \/ \E p \in Procs, content \in Vers : InsertFail(p, content)
    \/ \E p \in Procs : Commit(p)
    \/ \E p \in Procs : Return(p)

ApplySpec == Init /\ [][NextApply]_vars

\* ------------------------------------------------------------- typing
TypeOK ==
    /\ tableExists \in BOOLEAN
    /\ lockHolder \in {NoProc} \cup Procs
    /\ calls \in 0..MaxCalls
    /\ \A p \in Procs : proc[p].created => ~tableExists
    /\ ~tableExists => ledger = <<>>

\* ------------------------------------------------------------- claims

Done(p) == proc[p].pc = "done"
\* no other process committed a change since the call of p started
Alone(p) == ~proc[p].intf
\* ledger rows when applyMigrations was invoked / when resetDatabase was invoked
PreLedger(p) == proc[p].pre[2]
PreResetLedger(p) == proc[p].preReset[2]
CatalogNames(p) == {f.name : f \in SeqToSet(proc[p].migrationFiles)}
MaxRound(rows) ==
    IF rows = <<>> THEN 0
    ELSE CHOOSE m \in {r.round : r \in SeqToSet(rows)} : \A r \in SeqToSet(rows) : r.round <= m
\* a ledger row and a catalog file of the same name disagree on the checksum
Mismatch(rows, migrationFiles) ==
    \E r \in SeqToSet(rows), f \in SeqToSet(migrationFiles) :
        r.name = f.name /\ r.checksum # f.checksum
\* the call of p ended because a pending script failed to execute
FailedAtScript(p) ==
    /\ Done(p) /\ proc[p].ret = "false"
    /\ proc[p].err \in {"ScriptError", "IOError"}
    /\ proc[p].pending # <<>>

\* C1: an apply in which a pending script fails leaves the committed ledger and
\* user schema as they were before the call, whatever ran before the failing
\* script; no row of that call is in the ledger, and rows of a call are in the
\* committed ledger only once the call has committed its whole batch.
C1_AllOrNothing ==
    /\ \A p \in Procs : FailedAtScript(p) /\ Alone(p) => db = proc[p].pre
    /\ \A p \in Procs : \A i \in 1..Len(ledger) :
          (proc[p].id # 0 /\ ledger[i].applied_at = proc[p].id)
             => (Done(p) /\ proc[p].ret = "true" /\ proc[p].pending = <<>>)

\* C1 witness: a script failed after an earlier script of the batch had run
\* and its row had been inserted
C1_Witness ==
    \E p \in Procs :
        /\ FailedAtScript(p) /\ Alone(p) /\ proc[p].op = "apply"
        /\ proc[p].ran # <<>>
        /\ db = proc[p].pre

\* C2: when a ledger row of a catalogued name has another checksum than the
\* file, apply fails, executes no script and leaves the committed state as it was.
C2_IntegrityCheck ==
    \A p \in Procs :
        (Done(p) /\ proc[p].applyCalled /\ Alone(p)
           /\ Mismatch(PreLedger(p), proc[p].migrationFiles))
        => (proc[p].ret = "false" /\ proc[p].ran = <<>> /\ db = proc[p].pre)

\* C2 witness: the checksum error was raised while another file was pending
C2_Witness ==
    \E p \in Procs :
        /\ Done(p) /\ Alone(p)
        /\ Mismatch(PreLedger(p), proc[p].migrationFiles)
        /\ proc[p].err = "ChecksumMismatch"
        /\ CatalogNames(p) \ RowNames(PreLedger(p)) # {}

\* rows a successful apply of p has to add to the ledger it started from
NewRows(p) ==
    {[name |-> f.name, checksum |-> f.checksum,
      round |-> MaxRound(PreLedger(p)) + 1, applied_at |-> proc[p].id] :
        f \in {g \in SeqToSet(proc[p].migrationFiles) : g.name \notin RowNames(PreLedger(p))}}

\* C3: a successful apply adds exactly one row per catalog name that was not
\* in the ledger, with the file's checksum, all with round = previous maximum
\* round + 1 (1 on an empty ledger), and keeps the rows that were there.
C3_OneRoundPerApply ==
    \A p \in Procs :
        (Done(p) /\ proc[p].ret = "true" /\ Alone(p))
        => /\ Len(ledger) = Len(PreLedger(p)) + Cardinality(NewRows(p))
           /\ SubSeq(ledger, 1, Len(PreLedger(p))) = PreLedger(p)
           /\ SeqToSet(ledger) = SeqToSet(PreLedger(p)) \cup NewRows(p)

\* C3 witness: a successful apply added rows to a ledger that had rows
C3_Witness ==
    \E p \in Procs :
        /\ Done(p) /\ proc[p].ret = "true" /\ Alone(p) /\ proc[p].op = "apply"
        /\ PreLedger(p) # <<>>
        /\ Len(ledger) > Len(PreLedger(p))

\* C4 (as claimed): a process that holds the table lock and is about to read
\* the ledger reads every committed row.
C4_LockedReadSeesCommitted ==
    \A p \in Procs :
        proc[p].pc = "read" => SeqToSet(ledger) \subseteq SeqToSet(View(p))

\* C5 (under ApplySpec): in every committed state no name is in the ledger twice, no script has
\* more than one committed execution, and rows of one round come from one
\* invocation.
C5_NoDuplicateApplication ==
    /\ \A i, j \in 1..Len(ledger) : i # j => ledger[i].name # ledger[j].name
    /\ \A n \in Names : effects[n] <= 1
    /\ \A i, j \in 1..Len(ledger) :
          ledger[i].round = ledger[j].round => ledger[i].applied_at = ledger[j].applied_at

\* C5 witness: an apply that raced with another one had its INSERT rejected
\* after running a script, while the other one's rows are committed
C5_Witness ==
    \E p \in Procs :
        /\ Done(p) /\ proc[p].op = "apply"
        /\ proc[p].err \in {"UniqueViolation", "SerializationFailure"}
        /\ proc[p].ran # <<>>
        /\ \E i \in 1..Len(ledger) : ledger[i].applied_at \notin {0, proc[p].id}

\* C6 (as claimed): the scripts of one call are executed in ascending name order.
C6_ExecutedInNameOrder ==
    \A p \in Procs : \A i, j \in 1..Len(proc[p].ran) :
        i < j => proc[p].ran[i].name < proc[p].ran[j].name

\* C7 (as claimed): a ledger row whose file is gone does not make apply fail;
\* unless a checksum differs or a script fails, apply succeeds and every
\* catalog name is recorded.
C7_DeletedFileIgnored ==
    \A p \in Procs :
        (Done(p) /\ proc[p].applyCalled /\ Alone(p)
           /\ RowNames(PreLedger(p)) \ CatalogNames(p) # {}
           /\ ~Mismatch(PreLedger(p), proc[p].migrationFiles)
           /\ proc[p].err \notin {"ScriptError", "IOError"})
        => (proc[p].ret = "true" /\ CatalogNames(p) \subseteq RowNames(ledger))

\* C8: a reset declined at the prompt is over at once, returns false, has
\* enumerated and dropped no table, has not invoked applyMigrations, and
\* leaves the committed state as it was.
C8_DeclinedResetNoEffect ==
    \A p \in Procs :
        proc[p].declined
        => /\ Done(p) /\ proc[p].op = "reset" /\ proc[p].ret = "false"
           /\ ~proc[p].applyCalled
           /\ proc[p].tables = {} /\ proc[p].dropped = {}
           /\ proc[p].ran = <<>>
           /\ Alone(p) => db = proc[p].preReset

\* C8 witness: a reset was declined on a database that has ledger rows
C8_Witness ==
    \E p \in Procs : proc[p].declined /\ PreResetLedger(p) # <<>> /\ db = proc[p].preReset

\* C9: after a reset that was not declined and whose apply succeeded, the
\* ledger holds exactly one row per catalog file, with the file's checksum and
\* round 1.
C9_ResetReplaysRoundOne ==
    \A p \in Procs :
        (Done(p) /\ proc[p].op = "reset" /\ proc[p].ret = "true" /\ Alone(p))
        => /\ Len(ledger) = Len(proc[p].migrationFiles)
           /\ SeqToSet(ledger) =
                 {[name |-> f.name, checksum |-> f.checksum, round |-> 1,
                   applied_at |-> proc[p].id] : f \in SeqToSet(proc[p].migrationFiles)}

\* C9 witness: the reset replayed a catalog on a database whose ledger had a
\* row of round 2, a row of a deleted file and a row of a modified file
C9_Witness ==
    \E p \in Procs :
        /\ Done(p) /\ proc[p].op = "reset" /\ proc[p].ret = "true" /\ Alone(p)
        /\ \E r \in SeqToSet(PreResetLedger(p)) : r.round = 2
        /\ RowNames(PreResetLedger(p)) \ CatalogNames(p) # {}
        /\ Mismatch(PreResetLedger(p), proc[p].migrationFiles)

\* C10 (as claimed): a call that returns false leaves the committed state as
\* it was when the call started.
C10_FailureLeavesStateUnchanged ==
    \A p \in Procs :
        (Done(p) /\ proc[p].ret = "false" /\ Alone(p))
        => db = IF proc[p].op = "reset" THEN proc[p].preReset ELSE proc[p].pre

\* catalog entries of the call of p whose name was not in the ledger when
\* applyMigrations was invoked
PendingAtStart(p) ==
    {f \in SeqToSet(proc[p].migrationFiles) : f.name \notin RowNames(PreLedger(p))}

\* C11 (as claimed): an apply that succeeds returns the number of catalog
\* entries whose name was not in the ledger when the call started.
C11_ReturnsCount ==
    \A p \in Procs :
        (Done(p) /\ proc[p].op = "apply" /\ proc[p].ret # "false" /\ Alone(p))
        => proc[p].ret = ToString(Cardinality(PendingAtStart(p)))

\* the call of p ended because the directory or a file could not be read
\* while getMigrationFiles built the catalog
FailedAtCatalog(p) ==
    /\ Done(p) /\ proc[p].applyCalled
    /\ proc[p].err = "IOError" /\ proc[p].migrationFiles = <<>>

\* C12: while the catalog is being read no transaction is open (no table
\* created, no lock held, nothing executed or inserted); a failure to read it
\* makes the call return false with no lock held, no script executed and the
\* committed state, ledger table included, as it was when apply was invoked.
C12_CatalogFailureBeforeTransaction ==
    \A p \in Procs :
        /\ proc[p].pc = "catalog"
           => (lockHolder # p /\ ~proc[p].created
               /\ proc[p].inserted = <<>> /\ proc[p].ran = <<>>)
        /\ FailedAtCatalog(p)
           => /\ proc[p].ret = "false"
              /\ lockHolder # p /\ ~proc[p].created
              /\ proc[p].inserted = <<>> /\ proc[p].ran = <<>>
              /\ Alone(p) => db = proc[p].pre

\* C12 witness: an apply on a database without ledger table failed at the
\* catalog, and there is still no ledger table
C12_Witness ==
    \E p \in Procs :
        /\ FailedAtCatalog(p) /\ proc[p].op = "apply" /\ Alone(p)
        /\ ~proc[p].pre[1] /\ ~tableExists

\* the call of p read its catalog
CatalogRead(p) ==
    proc[p].applyCalled /\ ~(proc[p].pc = "catalog") /\ ~FailedAtCatalog(p)

\* C13: an apply whose catalog has no name that is missing from the ledger
\* executes no script, leaves rows and user schema as they were and leaves the
\* round of the next batch as it was; when the catalog is the one the ledger
\* was built from (same names, same checksums; both may be empty) it returns
\* true and the ledger table exists.
C13_NothingPendingIsNoOp ==
    \A p \in Procs :
        (Done(p) /\ CatalogRead(p) /\ Alone(p)
           /\ CatalogNames(p) \subseteq RowNames(PreLedger(p)))
        => /\ proc[p].ran = <<>>
           /\ ledger = PreLedger(p)
           /\ effects = proc[p].pre[3]
           /\ nextRound(getMigrations(ledger)) = nextRound(getMigrations(PreLedger(p)))
           /\ (CatalogNames(p) = RowNames(PreLedger(p))
                 /\ ~Mismatch(PreLedger(p), proc[p].migrationFiles))
              => (proc[p].ret = "true" /\ tableExists)

\* C13 witness: an unchanged, non-empty catalog was applied again
C13_Witness ==
    \E p \in Procs :
        /\ Done(p) /\ CatalogRead(p) /\ Alone(p) /\ proc[p].op = "apply"
        /\ PreLedger(p) # <<>>
        /\ CatalogNames(p) = RowNames(PreLedger(p))
        /\ proc[p].ret = "true" /\ ledger = PreLedger(p)

\* C14 (under ApplySpec): in the committed ledger, in insertion order, a row
\* inserted later never has a smaller round than a row inserted earlier.
C14_RoundsNonDecreasing ==
    \A i, j \in 1..Len(ledger) : i < j => ledger[i].round <= ledger[j].round

\* C14 witness: the ledger holds rows of two batches and a later apply failed
\* after it had executed a script
C14_Witness ==
    /\ \E i, j \in 1..Len(ledger) : i < j /\ ledger[i].round < ledger[j].round
    /\ \E p \in Procs : Done(p) /\ proc[p].ret = "false" /\ proc[p].ran # <<>>

\* the step commits the drop transaction of a reset
DropCommitted == \E p \in Procs : proc[p].pc = "drop" /\ proc'[p].pc = "catalog"

\* C15: every step other than the commit of a reset's drop keeps every
\* committed ledger row, with its name, checksum and round, at its place:
\* the ledger after the step extends the ledger before it.
C15_ApplyKeepsRows ==
    [][DropCommitted
         \/ (Len(ledger) <= Len(ledger') /\ SubSeq(ledger', 1, Len(ledger)) = ledger)]_vars

\* C15 witness: an apply whose catalog holds a modified file of a recorded
\* name is over, and the row recorded for that name is still there
C15_Witness ==
    \E p \in Procs :
        /\ Done(p) /\ proc[p].op = "apply" /\ PreLedger(p) # <<>>
        /\ Mismatch(PreLedger(p), proc[p].migrationFiles)
        /\ SubSeq(ledger, 1, Len(PreLedger(p))) = PreLedger(p)

\* the reset of p ended because a statement of its drop transaction failed
FailedAtDrop(p) == Done(p) /\ proc[p].op = "reset" /\ proc[p].err = "DropError"

\* tables present in a committed state d = <<tableExists, ledger, effects>>
TablesOf(d) == (IF d[1] THEN {LedgerTable} ELSE {}) \cup {n \in Names : d[3][n] > 0}

\* C16: a reset whose drop transaction fails returns false without having
\* invoked applyMigrations or executed a script, holds no lock and none of its
\* drops, and leaves every table, ledger rows included, as when it was invoked.
C16_DropFailureRollsBack ==
    \A p \in Procs :
        FailedAtDrop(p)
        => /\ proc[p].ret = "false"
           /\ ~proc[p].applyCalled /\ proc[p].ran = <<>>
           /\ proc[p].dropped = {} /\ lockHolder # p
           /\ Alone(p) => db = proc[p].preReset

\* C16 witness: the drop failed after some but not all of the enumerated
\* tables, the ledger among them, had been visited
C16_Witness ==
    \E p \in Procs :
        /\ FailedAtDrop(p) /\ Alone(p)
        /\ proc[p].preReset[2] # <<>>
        /\ proc[p].tables # {} /\ proc[p].tables # TablesOf(proc[p].preReset)
        /\ LedgerTable \notin proc[p].tables
        /\ db = proc[p].preReset

\* no row comes after a row it precedes in (round, name) order
Sorted(rows) == \A i, j \in 1..Len(rows) : i < j => ~RowBefore(rows[j], rows[i])

\* C17: in every state getMigrations returns the committed ledger rows, each
\* once, in ascending (round, name) order, and so does the read of every
\* transaction that is about to read the ledger.
C17_ListAppliedSorted ==
    /\ Sorted(getMigrations(ledger))
    /\ Len(getMigrations(ledger)) = Len(ledger)
    /\ SeqToSet(getMigrations(ledger)) = SeqToSet(ledger)
    /\ \A p \in Procs : proc[p].pc = "read" => Sorted(getMigrations(View(p)))

\* C17 witness: the ledger holds rows that were inserted in descending name
\* order, and an apply has succeeded on it
C17_Witness ==
    /\ \E i, j \in 1..Len(ledger) : i < j /\ RowBefore(ledger[j], ledger[i])
    /\ getMigrations(ledger) # ledger
    /\ \E p \in Procs : Done(p) /\ proc[p].ret = "true"

\* C18: the rounds of the rows of a non-empty committed ledger are exactly
\* 1..k, k being the largest of them.
C18_RoundsGapless ==
    ledger # <<>> => {r.round : r \in SeqToSet(ledger)} = 1..MaxRound(ledger)

\* C18 witness: the ledger has two rounds and an apply with nothing pending
\* has succeeded on it
C18_Witness ==
    /\ MaxRound(ledger) = 2
    /\ \E p \in Procs :
          /\ Done(p) /\ CatalogRead(p) /\ proc[p].ret = "true"
          /\ proc[p].ran = <<>> /\ MaxRound(PreLedger(p)) = 2

\* C19 (as claimed): in every committed state a name has a ledger row exactly
\* if the effects of its script are in the committed schema, and no script has
\* more than one committed execution in it.
C19_EntryIffEffects ==
    \A n \in Names :
        /\ n \in RowNames(ledger) <=> effects[n] > 0
        /\ effects[n] <= 1

\* C20 (as claimed): the checksum of every ledger row committed by a call is
\* the digest of the content the call executed for that name.
C20_ChecksumOfExecutedContent ==
    \A p \in Procs :
        (Done(p) /\ proc[p].ret = "true")
        => \A i \in 1..Len(proc[p].ran) : \A j \in 1..Len(ledger) :
              (ledger[j].applied_at = proc[p].id /\ ledger[j].name = proc[p].ran[i].name)
              => ledger[j].checksum = computeChecksum(proc[p].ran[i].ver)

====
